---- MODULE Spec2Model ----
(***************************************************************************)
(* Trap entry and system-call dispatch of the kernel, src/src/api/syscall.c *)
(*                                                                         *)
(* One kernel entry runs to completion before the next one starts.  The    *)
(* variable pc is the position of the running entry ("user" between        *)
(* entries) and calls is the sequence of the functions the entry has       *)
(* called so far, in call order, each with the value it returned.  The     *)
(* collaborators themselves are not part of syscall.c: their return values *)
(* are inputs drawn with \E, and their effect on thread state and on the   *)
(* caller slot is the one their interface describes.                       *)
(*                                                                         *)
(* The build modelled has DEBUG defined (assert() is active and the debug  *)
(* words of handleUnknownSyscall exist) and has neither                    *)
(* DANGEROUS_CODE_INJECTION nor CONFIG_MAX_NUM_TRACE_POINTS > 0.  Every    *)
(* other word of handleUnknownSyscall takes the path all builds share.     *)
(***************************************************************************)
EXTENDS Naturals, Sequences, FiniteSets

\* ---------------------------------------------------------------- bounds
MaxOver     == 1   \* message lengths reach n_msgRegisters + MaxOver
MaxConsumed == 1   \* ksConsumed is 0..MaxConsumed

\* ------------------------------------------------------------- constants
n_msgRegisters == 4

\* ------------------------------------------------------------ value sets
Threads      == {"t1", "t2"}
NULL         == "NULL"
ksIdleThread == "idle"

ThreadStates == {"Running", "Restart", "BlockedOnReceive", "BlockedOnSend",
                 "BlockedOnReply", "BlockedOnNotification", "Inactive"}

\* the words a capRegister holds: a capability pointer on entry, and the
\* word a debug call writes back
Words    == {0, 1}
MsgInfos == {0} \cup (n_msgRegisters .. (n_msgRegisters + MaxOver))

Syscalls == {"SysSend", "SysNBSend", "SysCall", "SysRecv", "SysReply",
             "SysReplyRecv", "SysNBRecv", "SysYield"}

UnknownSyscalls == {"SysDebugPutChar", "SysDebugHalt", "SysDebugSnapshot",
                    "SysDebugCapIdentify", "SysDebugNameThread", "SysDebugRun",
                    "SysBenchmarkResetLog", "SysBenchmarkDumpLog",
                    "SysBenchmarkLogSize", "SysBenchmarkFinalizeLog", "SysOther"}

irqInvalid == "irqInvalid"
IRQs       == {"irq0", irqInvalid}

\* cap_t, as far as handleReply looks at it
NullCap        == [capType |-> "cap_null_cap", capReplyMaster |-> FALSE, capTCBPtr |-> NULL]
ReplyCap(t, m) == [capType |-> "cap_reply_cap", capReplyMaster |-> m, capTCBPtr |-> t]
OtherCap       == [capType |-> "cap_endpoint_cap", capReplyMaster |-> FALSE, capTCBPtr |-> NULL]

cap_get_capType(cap)                  == cap.capType
cap_reply_cap_get_capReplyMaster(cap) == cap.capReplyMaster
cap_reply_cap_get_capTCBPtr(cap)      == cap.capTCBPtr

\* what the caller slot of thread t can hold when handleReply reads it
CallerCaps(t) == {NullCap, OtherCap, ReplyCap(t, TRUE)}
                   \cup {ReplyCap(c, FALSE) : c \in Threads \ {t}}

\* what lookupCap / lookupCapAndSlot can return: a failure, or a cap with
\* the fields handleRecv reads (ntfnBoundTCB is the notification object's)
LookupResults ==
  [status : {"EXCEPTION_LOOKUP_FAULT"}, capType : {"cap_null_cap"},
   capCanReceive : {FALSE}, ntfnBoundTCB : {NULL}]
  \cup [status : {"EXCEPTION_NONE"}, capType : {"cap_endpoint_cap", "cap_thread_cap"},
        capCanReceive : BOOLEAN, ntfnBoundTCB : {NULL}]
  \cup [status : {"EXCEPTION_NONE"}, capType : {"cap_notification_cap"},
        capCanReceive : BOOLEAN, ntfnBoundTCB : Threads \cup {NULL}]

NoLookup == [status |-> "none", capType |-> "cap_null_cap",
             capCanReceive |-> FALSE, ntfnBoundTCB |-> NULL]

\* the caps handleInvocation is tried with
InvocationLookups ==
  {lu \in LookupResults :
     lu.status = "EXCEPTION_NONE" => (lu.capType = "cap_endpoint_cap" /\ lu.capCanReceive)}

VARIABLES
  ksCurThread,      \* the current thread (ksIdleThread when none can run)
  tcbState,         \* tcbState[t]: the thread state tag of t
  tcbCaller,        \* tcbCaller[t]: the cap in t's caller slot
  capRegister,      \* capRegister of the trapping thread's register file
  msgInfoRegister,  \* msgInfoRegister of the trapping thread's register file
  ksConsumed,       \* consumed-time counter
  pc,               \* position of the running kernel entry
  calls,            \* the calls of the running entry, in order
  syscall,          \* handleSyscall's argument (NULL outside handleSyscall)
  isCall,           \* handleInvocation's isCall
  isBlocking,       \* handleInvocation's / handleRecv's isBlocking
  ret,              \* handleSyscall's ret
  lu_ret,           \* handleInvocation's / handleRecv's lu_ret
  status,           \* handleInvocation's status
  buffer,           \* handleInvocation's buffer (NULL when there is none)
  length,           \* the length handleInvocation gives decodeInvocation
  decoded,          \* the thread state decodeInvocation returned with
  entry             \* the trap that started the running entry: its entry
                    \* point and argument, and the kernel state at the trap

vars == <<ksCurThread, tcbState, tcbCaller, capRegister, msgInfoRegister,
          ksConsumed, pc, calls, syscall, isCall, isBlocking, ret, lu_ret,
          status, buffer, length, decoded, entry>>

Locals == <<syscall, isCall, isBlocking, ret, lu_ret, status, buffer, length, decoded>>

\* a call, and a call with the value it returned
Call(f)       == [f |-> f, r |-> "void"]
CallRet(f, r) == [f |-> f, r |-> r]
Bool(b)       == IF b THEN "true" ELSE "false"

NoEntry == [path |-> "none", arg |-> NULL, thread |-> NULL, capRegister |-> 0,
            msgInfoRegister |-> 0, tcbCaller |-> [t \in Threads |-> NullCap],
            tcbState |-> [t \in Threads |-> "Running"]]

\* a thread traps with a register file (cptr, info); the registers are
\* whatever its user code put there
Trap(path, arg, cptr, info) ==
  [path |-> path, arg |-> arg, thread |-> ksCurThread, capRegister |-> cptr,
   msgInfoRegister |-> info, tcbCaller |-> tcbCaller, tcbState |-> tcbState]

\* the thread a non-master reply cap in a caller slot names waits for
\* that reply
ReplyTargetsBlocked(ts, cs) ==
  \A t \in Threads :
    (cs[t].capType = "cap_reply_cap" /\ ~cs[t].capReplyMaster)
      => ts[cs[t].capTCBPtr] = "BlockedOnReply"

Init ==
  /\ ksCurThread \in Threads
  /\ tcbState \in [Threads -> {"Running", "BlockedOnReply"}]
  /\ tcbState[ksCurThread] = "Running"
  /\ tcbCaller \in [Threads -> UNION {CallerCaps(t) : t \in Threads}]
  /\ \A t \in Threads : tcbCaller[t] \in CallerCaps(t)
  /\ ReplyTargetsBlocked(tcbState, tcbCaller)
  /\ capRegister = 0
  /\ msgInfoRegister = 0
  /\ ksConsumed = 0
  /\ pc = "user"
  /\ calls = <<>>
  /\ syscall = NULL
  /\ isCall = FALSE
  /\ isBlocking = FALSE
  /\ ret = "EXCEPTION_NONE"
  /\ lu_ret = NoLookup
  /\ status = "EXCEPTION_NONE"
  /\ buffer = NULL
  /\ length = 0
  /\ decoded = "none"
  /\ entry = NoEntry

\* the threads before any of them has called: every caller slot is empty
InitEmpty ==
  /\ Init
  /\ tcbState = [t \in Threads |-> "Running"]
  /\ tcbCaller = [t \in Threads |-> NullCap]

\* ---------------------------------------------------------- collaborators
setThreadState(ts, t, s) == [ts EXCEPT ![t] = s]

\* handleFault(t): the fault is sent to t's handler and t waits for the
\* handler's reply, or there is no handler and t is made inactive
FaultStates == {"BlockedOnReply", "Inactive"}

\* updateTimestamp(): time only moves forward
updateTimestamp(c) == c .. MaxConsumed

\* the thread state decodeInvocation can leave the invoking thread in: an
\* error is found before anything is done; an invocation that is carried out
\* first marks the thread Restart, and may then block or stop it; a
\* preempted one is restarted
DecodeStates(ts, st) ==
  IF st = "EXCEPTION_SYSCALL_ERROR" THEN {ts}
  ELSE IF st = "EXCEPTION_PREEMPTED" THEN {"Restart"}
  ELSE {"Running", "Restart", "BlockedOnSend", "BlockedOnReply", "Inactive"}

\* doReplyTransfer(sender, receiver, slot): the receiver resumes (or, for a
\* fault reply, is restarted or left inactive) and the slot is emptied
ReplyStates == {"Running", "Restart", "Inactive"}

\* faulty variant: the budget is checked before the time is accounted
Accounted_checkFirst(budget) ==
  <<CallRet("checkBudget", Bool(budget)), Call("updateTimestamp")>>

\* updateTimestamp(); checkBudget(): the opening of every accounted entry
Accounted(budget) == <<Call("updateTimestamp"), CallRet("checkBudget", Bool(budget))>>

\* faulty variant: the budget gate's else branch forgets to mark the thread Restart
tryAgainLater_forgotten ==
  /\ calls' = Accounted(FALSE)
  /\ UNCHANGED tcbState

\* the else branch of the budget gate: try again when the thread has budget
tryAgainLater ==
  /\ calls' = Append(Accounted(FALSE), Call("setThreadState"))
  /\ tcbState' = setThreadState(tcbState, ksCurThread, "Restart")

\* ---------------------------------------------------------------- entries
\* faulty variant: the interrupt entry accounts for time like the other entries
handleInterruptEntry_accounted ==
  /\ pc = "user"
  /\ \E cptr \in Words, info \in MsgInfos :
       /\ entry' = Trap("handleInterruptEntry", NULL, cptr, info)
       /\ capRegister' = cptr
       /\ msgInfoRegister' = info
  /\ \E irq \in IRQs :
       calls' = Accounted(TRUE)
                  \o <<CallRet("getActiveIRQ", irq),
                       IF irq # irqInvalid THEN Call("handleInterrupt")
                       ELSE Call("handleSpuriousIRQ")>>
  /\ pc' = "schedule"
  /\ UNCHANGED <<ksCurThread, tcbState, tcbCaller, ksConsumed, Locals>>

handleInterruptEntry ==
  /\ pc = "user"
  /\ \E cptr \in Words, info \in MsgInfos :
       /\ entry' = Trap("handleInterruptEntry", NULL, cptr, info)
       /\ capRegister' = cptr
       /\ msgInfoRegister' = info
  /\ \E irq \in IRQs :
       calls' = <<CallRet("getActiveIRQ", irq),
                  IF irq # irqInvalid THEN Call("handleInterrupt")
                  ELSE Call("handleSpuriousIRQ")>>
  /\ pc' = "schedule"
  /\ UNCHANGED <<ksCurThread, tcbState, tcbCaller, ksConsumed, Locals>>

handleUnknownSyscall(w) ==
  /\ pc = "user"
  /\ ksCurThread \in Threads
  /\ \E cptr \in Words, info \in MsgInfos :
     /\ entry' = Trap("handleUnknownSyscall", w, cptr, info)
     /\ msgInfoRegister' = info
     /\ CASE w = "SysDebugPutChar" ->
               /\ calls' = <<Call("kernel_putchar")>>
               /\ pc' = "return"
               /\ capRegister' = cptr
               /\ UNCHANGED <<tcbState, ksConsumed>>
          [] w = "SysDebugHalt" ->
               /\ calls' = <<Call("halt")>>
               /\ pc' = "halted"
               /\ capRegister' = cptr
               /\ UNCHANGED <<tcbState, ksConsumed>>
          [] w = "SysDebugSnapshot" ->
               /\ calls' = <<Call("capDL")>>
               /\ pc' = "return"
               /\ capRegister' = cptr
               /\ UNCHANGED <<tcbState, ksConsumed>>
          [] w = "SysDebugCapIdentify" ->
               /\ calls' = <<Call("lookupCapAndSlot"), Call("setRegister")>>
               /\ \E cap_type \in Words : capRegister' = cap_type
               /\ pc' = "return"
               /\ UNCHANGED <<tcbState, ksConsumed>>
          [] w = "SysDebugNameThread" ->
               /\ \E named \in BOOLEAN :
                    IF named
                      THEN /\ calls' = <<Call("lookupCapAndSlot"), Call("lookupIPCBuffer"),
                                         Call("setThreadName")>>
                           /\ pc' = "return"
                      ELSE /\ calls' = <<Call("lookupCapAndSlot"), Call("halt")>>
                           /\ pc' = "halted"
               /\ capRegister' = cptr
               /\ UNCHANGED <<tcbState, ksConsumed>>
          [] w = "SysDebugRun" ->
               /\ calls' = <<Call("getRegister")>>
               /\ pc' = "return"
               /\ capRegister' = cptr
               /\ UNCHANGED <<tcbState, ksConsumed>>
          [] w \in {"SysBenchmarkResetLog", "SysBenchmarkFinalizeLog"} ->
               /\ calls' = <<>>
               /\ pc' = "return"
               /\ capRegister' = cptr
               /\ UNCHANGED <<tcbState, ksConsumed>>
          [] w = "SysBenchmarkDumpLog" ->
               /\ \E dumped \in BOOLEAN :
                    IF dumped
                      THEN /\ calls' = <<Call("lookupIPCBuffer"), Call("setRegister")>>
                           /\ \E size \in Words : capRegister' = size
                      ELSE /\ calls' = <<Call("lookupIPCBuffer"), Call("userError")>>
                           /\ capRegister' = cptr
               /\ pc' = "return"
               /\ UNCHANGED <<tcbState, ksConsumed>>
          [] w = "SysBenchmarkLogSize" ->
               /\ calls' = <<Call("setRegister")>>
               /\ \E size \in Words : capRegister' = size
               /\ pc' = "return"
               /\ UNCHANGED <<tcbState, ksConsumed>>
          [] OTHER ->
               /\ \E c \in updateTimestamp(ksConsumed), budget \in BOOLEAN,
                     fs \in FaultStates :
                    /\ ksConsumed' = c
                    /\ IF budget
                         THEN /\ calls' = Accounted(budget)
                                            \o <<Call("fault_unknown_syscall_new"),
                                                 Call("handleFault")>>
                              /\ tcbState' = setThreadState(tcbState, ksCurThread, fs)
                         ELSE tryAgainLater
               /\ pc' = "schedule"
               /\ capRegister' = cptr
  /\ UNCHANGED <<ksCurThread, tcbCaller, Locals>>

handleUserLevelFault ==
  /\ pc = "user"
  /\ ksCurThread \in Threads
  /\ \E cptr \in Words, info \in MsgInfos :
       /\ entry' = Trap("handleUserLevelFault", NULL, cptr, info)
       /\ capRegister' = cptr
       /\ msgInfoRegister' = info
  /\ \E c \in updateTimestamp(ksConsumed), budget \in BOOLEAN, fs \in FaultStates :
       /\ ksConsumed' = c
       /\ IF budget
            THEN /\ calls' = Accounted(budget)
                               \o <<Call("fault_user_exception_new"), Call("handleFault")>>
                 /\ tcbState' = setThreadState(tcbState, ksCurThread, fs)
            ELSE tryAgainLater
  /\ pc' = "schedule"
  /\ UNCHANGED <<ksCurThread, tcbCaller, Locals>>

\* faulty variant: a fault is raised whatever handleVMFault returned
handleVMFaultEvent_alwaysFaults ==
  /\ pc = "user"
  /\ ksCurThread \in Threads
  /\ \E cptr \in Words, info \in MsgInfos :
       /\ entry' = Trap("handleVMFaultEvent", NULL, cptr, info)
       /\ capRegister' = cptr
       /\ msgInfoRegister' = info
  /\ \E c \in updateTimestamp(ksConsumed), budget \in BOOLEAN,
        st \in {"EXCEPTION_NONE", "EXCEPTION_FAULT"}, fs \in FaultStates :
       /\ ksConsumed' = c
       /\ IF budget
            THEN /\ calls' = Accounted(budget)
                               \o <<CallRet("handleVMFault", st), Call("handleFault")>>
                 /\ tcbState' = setThreadState(tcbState, ksCurThread, fs)
            ELSE tryAgainLater
  /\ pc' = "schedule"
  /\ UNCHANGED <<ksCurThread, tcbCaller, Locals>>

handleVMFaultEvent ==
  /\ pc = "user"
  /\ ksCurThread \in Threads
  /\ \E cptr \in Words, info \in MsgInfos :
       /\ entry' = Trap("handleVMFaultEvent", NULL, cptr, info)
       /\ capRegister' = cptr
       /\ msgInfoRegister' = info
  /\ \E c \in updateTimestamp(ksConsumed), budget \in BOOLEAN,
        st \in {"EXCEPTION_NONE", "EXCEPTION_FAULT"}, fs \in FaultStates :
       /\ ksConsumed' = c
       /\ IF budget
            THEN IF st # "EXCEPTION_NONE"
                   THEN /\ calls' = Accounted(budget)
                                      \o <<CallRet("handleVMFault", st), Call("handleFault")>>
                        /\ tcbState' = setThreadState(tcbState, ksCurThread, fs)
                   ELSE /\ calls' = Append(Accounted(budget), CallRet("handleVMFault", st))
                        /\ UNCHANGED tcbState
            ELSE tryAgainLater
  /\ pc' = "schedule"
  /\ UNCHANGED <<ksCurThread, tcbCaller, Locals>>

\* handleSyscall up to the call of the handler the opcode selects
handleSyscall(sc) ==
  /\ pc = "user"
  /\ ksCurThread \in Threads
  /\ \E cptr \in Words, info \in MsgInfos :
       /\ entry' = Trap("handleSyscall", sc, cptr, info)
       /\ capRegister' = cptr
       /\ msgInfoRegister' = info
  /\ syscall' = sc
  /\ ret' = "EXCEPTION_NONE"
  /\ \E c \in updateTimestamp(ksConsumed), budget \in BOOLEAN :
       /\ ksConsumed' = c
       /\ IF budget
            THEN /\ UNCHANGED tcbState
                 /\ CASE sc = "SysSend" ->
                           /\ pc' = "handleInvocation"
                           /\ isCall' = FALSE /\ isBlocking' = TRUE
                           /\ calls' = Accounted(budget)
                      [] sc = "SysNBSend" ->
                           /\ pc' = "handleInvocation"
                           /\ isCall' = FALSE /\ isBlocking' = FALSE
                           /\ calls' = Accounted(budget)
                      [] sc = "SysCall" ->
                           /\ pc' = "handleInvocation"
                           /\ isCall' = TRUE /\ isBlocking' = TRUE
                           /\ calls' = Accounted(budget)
                      [] sc = "SysRecv" ->
                           /\ pc' = "handleRecv"
                           /\ isBlocking' = TRUE /\ UNCHANGED isCall
                           /\ calls' = Accounted(budget)
                      [] sc = "SysReply" ->
                           /\ pc' = "handleReply"
                           /\ UNCHANGED <<isCall, isBlocking>>
                           /\ calls' = Accounted(budget)
                      [] sc = "SysReplyRecv" ->
                           /\ pc' = "handleReply"
                           /\ isBlocking' = TRUE /\ UNCHANGED isCall
                           /\ calls' = Accounted(budget)
                      [] sc = "SysNBRecv" ->
                           /\ pc' = "handleRecv"
                           /\ isBlocking' = FALSE /\ UNCHANGED isCall
                           /\ calls' = Accounted(budget)
                      [] sc = "SysYield" ->
                           /\ pc' = "handleYield"
                           /\ UNCHANGED <<isCall, isBlocking>>
                           /\ calls' = Accounted(budget)
                      [] OTHER ->
                           /\ pc' = "halted"
                           /\ UNCHANGED <<isCall, isBlocking>>
                           /\ calls' = Append(Accounted(budget), Call("fail"))
            ELSE /\ tryAgainLater
                 /\ pc' = "schedule"
                 /\ UNCHANGED <<isCall, isBlocking>>
  /\ UNCHANGED <<ksCurThread, tcbCaller, lu_ret, status, buffer, length, decoded>>

message_info_get_msgLength(info) == info % 128

\* faulty variant: the length of the message is passed on as it is
clampedLength_asGiven(len, buf) == len

\* the length handed to decodeInvocation: without an IPC buffer no more
\* than the message registers hold
clampedLength(len, buf) ==
  IF len > n_msgRegisters /\ buf = NULL THEN n_msgRegisters ELSE len

\* faulty variant: a failed lookup faults the thread whatever isBlocking is
faultIfBlocking_always(looked, fs) ==
  /\ calls' = calls \o looked \o <<Call("handleFault")>>
  /\ tcbState' = setThreadState(tcbState, ksCurThread, fs)
  /\ ret' = "EXCEPTION_NONE"
  /\ pc' = "handleSyscall_ret"

\* a failed lookup in handleInvocation: the fault goes to the thread only if
\* the invocation is a blocking one, and handleInvocation returns
faultIfBlocking(looked, fs) ==
  /\ calls' = calls \o looked \o (IF isBlocking THEN <<Call("handleFault")>> ELSE <<>>)
  /\ tcbState' = IF isBlocking THEN setThreadState(tcbState, ksCurThread, fs)
                 ELSE tcbState
  /\ ret' = "EXCEPTION_NONE"
  /\ pc' = "handleSyscall_ret"

\* handleInvocation up to the call of decodeInvocation
handleInvocation ==
  /\ pc = "handleInvocation"
  /\ \E lu \in InvocationLookups, buf \in {NULL, "buffer"},
        x_status \in {"EXCEPTION_NONE", "EXCEPTION_LOOKUP_FAULT"}, fs \in FaultStates :
       /\ lu_ret' = lu
       /\ IF lu.status # "EXCEPTION_NONE"
            THEN /\ faultIfBlocking(<<CallRet("lookupCapAndSlot", lu.status),
                                       Call("fault_cap_fault_new")>>, fs)
                 /\ UNCHANGED <<status, buffer, length>>
            ELSE /\ buffer' = buf
                 /\ status' = x_status
                 /\ IF x_status # "EXCEPTION_NONE"
                      THEN /\ faultIfBlocking(<<CallRet("lookupCapAndSlot", lu.status),
                                                 Call("lookupIPCBuffer"),
                                                 CallRet("lookupExtraCaps", x_status)>>, fs)
                           /\ UNCHANGED length
                      ELSE /\ calls' = calls \o <<CallRet("lookupCapAndSlot", lu.status),
                                                  Call("lookupIPCBuffer"),
                                                  CallRet("lookupExtraCaps", x_status)>>
                           /\ length' = clampedLength(
                                          message_info_get_msgLength(msgInfoRegister), buf)
                           /\ pc' = "decodeInvocation"
                           /\ UNCHANGED <<tcbState, ret>>
  /\ UNCHANGED <<ksCurThread, tcbCaller, capRegister, msgInfoRegister, ksConsumed,
                 syscall, isCall, isBlocking, decoded, entry>>

\* decodeInvocation(...): its status and the state it leaves the thread in
decodeInvocation ==
  /\ pc = "decodeInvocation"
  /\ \E st \in {"EXCEPTION_NONE", "EXCEPTION_PREEMPTED", "EXCEPTION_SYSCALL_ERROR"},
        ts \in ThreadStates :
       /\ ts \in DecodeStates(tcbState[ksCurThread], st)
       /\ calls' = Append(calls, CallRet("decodeInvocation", st))
       /\ status' = st
       /\ decoded' = ts
       /\ tcbState' = setThreadState(tcbState, ksCurThread, ts)
  /\ pc' = "handleInvocation_status"
  /\ UNCHANGED <<ksCurThread, tcbCaller, capRegister, msgInfoRegister, ksConsumed,
                 syscall, isCall, isBlocking, ret, lu_ret, buffer, length, entry>>

\* faulty variant: a preempted invocation is reported to handleSyscall as finished
invocationPreempted_swallowed ==
  /\ ret' = "EXCEPTION_NONE"
  /\ UNCHANGED <<calls, tcbState, msgInfoRegister>>

\* decodeInvocation was preempted: handleInvocation returns the status
invocationPreempted ==
  /\ ret' = status
  /\ UNCHANGED <<calls, tcbState, msgInfoRegister>>

\* faulty variant: a syscall error is reported whatever the system call was
invocationError_alwaysReplies ==
  /\ ret' = "EXCEPTION_NONE"
  /\ calls' = Append(calls, Call("replyFromKernel_error"))
  /\ \E w \in MsgInfos : msgInfoRegister' = w
  /\ UNCHANGED tcbState

\* decodeInvocation found a syscall error: only a Call is told
invocationError ==
  /\ ret' = "EXCEPTION_NONE"
  /\ IF isCall
       THEN /\ calls' = Append(calls, Call("replyFromKernel_error"))
            /\ \E w \in MsgInfos : msgInfoRegister' = w
       ELSE UNCHANGED <<calls, msgInfoRegister>>
  /\ UNCHANGED tcbState

\* faulty variant: the thread is replied to and set running whatever state
\* the decoder left it in
invocationDone_alwaysRuns ==
  /\ ret' = "EXCEPTION_NONE"
  /\ IF isCall
       THEN /\ calls' = calls \o <<Call("replyFromKernel_success_empty"),
                                   Call("setThreadState")>>
            /\ msgInfoRegister' = 0
       ELSE /\ calls' = Append(calls, Call("setThreadState"))
            /\ UNCHANGED msgInfoRegister
  /\ tcbState' = setThreadState(tcbState, ksCurThread, "Running")

\* faulty variant: a successful Call is set running without its empty reply
invocationDone_noReply ==
  /\ ret' = "EXCEPTION_NONE"
  /\ IF tcbState[ksCurThread] = "Restart"
       THEN /\ calls' = Append(calls, Call("setThreadState"))
            /\ tcbState' = setThreadState(tcbState, ksCurThread, "Running")
       ELSE UNCHANGED <<calls, tcbState>>
  /\ UNCHANGED msgInfoRegister

\* decodeInvocation succeeded: a thread still in Restart is replied to, if
\* it made a Call, and runs on
invocationDone ==
  /\ ret' = "EXCEPTION_NONE"
  /\ IF tcbState[ksCurThread] = "Restart"
       THEN /\ IF isCall
                 THEN /\ calls' = calls \o <<Call("replyFromKernel_success_empty"),
                                             Call("setThreadState")>>
                      /\ msgInfoRegister' = 0
                 ELSE /\ calls' = Append(calls, Call("setThreadState"))
                      /\ UNCHANGED msgInfoRegister
            /\ tcbState' = setThreadState(tcbState, ksCurThread, "Running")
       ELSE UNCHANGED <<calls, tcbState, msgInfoRegister>>

\* handleInvocation after decodeInvocation has returned
handleInvocation_status ==
  /\ pc = "handleInvocation_status"
  /\ pc' = "handleSyscall_ret"
  /\ IF status = "EXCEPTION_PREEMPTED" THEN invocationPreempted
     ELSE IF status = "EXCEPTION_SYSCALL_ERROR" THEN invocationError
     ELSE invocationDone
  /\ UNCHANGED <<ksCurThread, tcbCaller, capRegister, ksConsumed, syscall, isCall,
                 isBlocking, lu_ret, status, buffer, length, decoded, entry>>

\* faulty variant: SysReplyRecv stops after the reply
AfterReply_noRecv == "handleSyscall_ret"

\* where handleSyscall goes on after handleReply returns
AfterReply == IF syscall = "SysReplyRecv" THEN "handleRecv" ELSE "handleSyscall_ret"

\* faulty variant: such a caller slot is passed over and handleReply returns
invalidCallerCap_returns ==
  /\ pc' = AfterReply
  /\ UNCHANGED <<calls, tcbState, tcbCaller>>

\* a caller slot that holds a master reply cap or a cap that is no reply
\* cap: handleReply leaves the switch and reaches fail()
invalidCallerCap ==
  /\ calls' = Append(calls, Call("fail"))
  /\ pc' = "halted"
  /\ UNCHANGED <<tcbState, tcbCaller>>

\* faulty variant: an empty caller slot is answered with a fault
noReplyCap_faults ==
  /\ calls' = calls \o <<Call("userError"), Call("handleFault")>>
  /\ tcbState' = setThreadState(tcbState, ksCurThread, "Inactive")
  /\ pc' = AfterReply
  /\ UNCHANGED tcbCaller

\* an empty caller slot: handleReply reports it and returns
noReplyCap ==
  /\ calls' = Append(calls, Call("userError"))
  /\ pc' = AfterReply
  /\ UNCHANGED <<tcbState, tcbCaller>>

handleReply ==
  /\ pc = "handleReply"
  /\ LET callerCap == tcbCaller[ksCurThread]
         caller    == cap_reply_cap_get_capTCBPtr(callerCap)
     IN CASE cap_get_capType(callerCap) = "cap_reply_cap"
                /\ cap_reply_cap_get_capReplyMaster(callerCap) ->
               invalidCallerCap
          [] cap_get_capType(callerCap) = "cap_reply_cap"
                /\ ~cap_reply_cap_get_capReplyMaster(callerCap) ->
               IF caller = ksCurThread
                 THEN /\ calls' = Append(calls, Call("assert"))
                      /\ pc' = "halted"
                      /\ UNCHANGED <<tcbState, tcbCaller>>
                 ELSE /\ calls' = Append(calls, Call("doReplyTransfer"))
                      /\ \E rs \in ReplyStates :
                           tcbState' = setThreadState(tcbState, caller, rs)
                      /\ tcbCaller' = [tcbCaller EXCEPT ![ksCurThread] = NullCap]
                      /\ pc' = AfterReply
          [] cap_get_capType(callerCap) = "cap_null_cap" ->
               noReplyCap
          [] OTHER ->
               invalidCallerCap
  /\ UNCHANGED <<ksCurThread, capRegister, msgInfoRegister, ksConsumed, Locals, entry>>

\* the calls of handleRecv's three fault exits after a lookup that succeeded
MissingCapability ==
  <<Call("lookup_fault_missing_capability_new"), Call("fault_cap_fault_new"),
    Call("handleFault")>>

\* faulty variant: the notification's bound thread is not looked at
ntfnDenied_rightOnly(lu) == ~lu.capCanReceive

\* a notification cap handleRecv turns away: no receive right, or the
\* notification is bound to another thread
ntfnDenied(lu) ==
  \/ ~lu.capCanReceive
  \/ (lu.ntfnBoundTCB # NULL /\ lu.ntfnBoundTCB # ksCurThread)

\* faulty variant: receiveIPC is reached with the caller slot as it was
startReceiveIPC_keepsCaller(lu) ==
  /\ calls' = Append(calls, CallRet("lookupCap", lu.status))
  /\ pc' = "receiveIPC"
  /\ UNCHANGED <<tcbState, tcbCaller>>

\* an endpoint cap with the receive right: the caller slot is emptied, then
\* receiveIPC is called
startReceiveIPC(lu) ==
  /\ calls' = calls \o <<CallRet("lookupCap", lu.status), Call("deleteCallerCap")>>
  /\ tcbCaller' = [tcbCaller EXCEPT ![ksCurThread] = NullCap]
  /\ pc' = "receiveIPC"
  /\ UNCHANGED tcbState

\* faulty variant: the caller slot is emptied before receiveSignal as well
startReceiveSignal_clearsCaller(lu) ==
  /\ calls' = calls \o <<CallRet("lookupCap", lu.status), Call("deleteCallerCap")>>
  /\ tcbCaller' = [tcbCaller EXCEPT ![ksCurThread] = NullCap]
  /\ pc' = "receiveSignal"
  /\ UNCHANGED tcbState

\* a notification cap handleRecv accepts: receiveSignal is called
startReceiveSignal(lu) ==
  /\ calls' = Append(calls, CallRet("lookupCap", lu.status))
  /\ pc' = "receiveSignal"
  /\ UNCHANGED <<tcbState, tcbCaller>>

\* handleRecv up to the call of receiveIPC or receiveSignal
handleRecv ==
  /\ pc = "handleRecv"
  /\ \E lu \in LookupResults, fs \in FaultStates :
       /\ lu_ret' = lu
       /\ IF lu.status # "EXCEPTION_NONE"
            THEN /\ calls' = calls \o <<CallRet("lookupCap", lu.status),
                                        Call("fault_cap_fault_new"), Call("handleFault")>>
                 /\ tcbState' = setThreadState(tcbState, ksCurThread, fs)
                 /\ pc' = "handleSyscall_ret"
                 /\ UNCHANGED tcbCaller
            ELSE CASE lu.capType = "cap_endpoint_cap" ->
                        IF ~lu.capCanReceive
                          THEN /\ calls' = Append(calls, CallRet("lookupCap", lu.status))
                                             \o MissingCapability
                               /\ tcbState' = setThreadState(tcbState, ksCurThread, fs)
                               /\ pc' = "handleSyscall_ret"
                               /\ UNCHANGED tcbCaller
                          ELSE startReceiveIPC(lu)
                   [] lu.capType = "cap_notification_cap" ->
                        IF ntfnDenied(lu)
                          THEN /\ calls' = Append(calls, CallRet("lookupCap", lu.status))
                                             \o MissingCapability
                               /\ tcbState' = setThreadState(tcbState, ksCurThread, fs)
                               /\ pc' = "handleSyscall_ret"
                               /\ UNCHANGED tcbCaller
                          ELSE startReceiveSignal(lu)
                   [] OTHER ->
                        /\ calls' = Append(calls, CallRet("lookupCap", lu.status))
                                      \o MissingCapability
                        /\ tcbState' = setThreadState(tcbState, ksCurThread, fs)
                        /\ pc' = "handleSyscall_ret"
                        /\ UNCHANGED tcbCaller
  /\ UNCHANGED <<ksCurThread, capRegister, msgInfoRegister, ksConsumed, syscall, isCall,
                 isBlocking, ret, status, buffer, length, decoded, entry>>

\* faulty variant: the reply cap a caller leaves behind names the receiver
receiveIPC_repliesToReceiver ==
  /\ pc = "receiveIPC"
  /\ calls' = Append(calls, Call("receiveIPC"))
  /\ \/ /\ tcbState' = IF isBlocking
                         THEN setThreadState(tcbState, ksCurThread, "BlockedOnReceive")
                         ELSE tcbState
        /\ UNCHANGED tcbCaller
     \/ \E sender \in Threads, call \in BOOLEAN :
          /\ tcbState[sender] = "BlockedOnSend"
          /\ IF call
               THEN /\ tcbState' = setThreadState(tcbState, sender, "BlockedOnReply")
                    /\ tcbCaller' = [tcbCaller EXCEPT
                                       ![ksCurThread] = ReplyCap(ksCurThread, FALSE)]
               ELSE /\ tcbState' = setThreadState(tcbState, sender, "Running")
                    /\ UNCHANGED tcbCaller
  /\ pc' = "handleSyscall_ret"
  /\ UNCHANGED <<ksCurThread, capRegister, msgInfoRegister, ksConsumed, Locals, entry>>

\* receiveIPC(thread, cap, isBlocking): a sender that waits on the endpoint
\* hands its message over (a caller is then owed a reply, through the
\* receiver's caller slot); with no sender a blocking receiver waits
receiveIPC ==
  /\ pc = "receiveIPC"
  /\ calls' = Append(calls, Call("receiveIPC"))
  /\ \/ /\ tcbState' = IF isBlocking
                         THEN setThreadState(tcbState, ksCurThread, "BlockedOnReceive")
                         ELSE tcbState
        /\ UNCHANGED tcbCaller
     \/ \E sender \in Threads, call \in BOOLEAN :
          /\ tcbState[sender] = "BlockedOnSend"
          /\ IF call
               THEN /\ tcbState' = setThreadState(tcbState, sender, "BlockedOnReply")
                    /\ tcbCaller' = [tcbCaller EXCEPT ![ksCurThread] = ReplyCap(sender, FALSE)]
               ELSE /\ tcbState' = setThreadState(tcbState, sender, "Running")
                    /\ UNCHANGED tcbCaller
  /\ pc' = "handleSyscall_ret"
  /\ UNCHANGED <<ksCurThread, capRegister, msgInfoRegister, ksConsumed, Locals, entry>>

\* receiveSignal(thread, cap, isBlocking): a pending signal is taken, or a
\* blocking receiver waits
receiveSignal ==
  /\ pc = "receiveSignal"
  /\ calls' = Append(calls, Call("receiveSignal"))
  /\ \E pending \in BOOLEAN :
       tcbState' = IF ~pending /\ isBlocking
                     THEN setThreadState(tcbState, ksCurThread, "BlockedOnNotification")
                     ELSE tcbState
  /\ pc' = "handleSyscall_ret"
  /\ UNCHANGED <<ksCurThread, tcbCaller, capRegister, msgInfoRegister, ksConsumed,
                 Locals, entry>>

\* faulty variant: handleYield leaves the consumed time as it is
handleYield_keepsConsumed ==
  /\ pc = "handleYield"
  /\ \E rdy \in BOOLEAN :
       calls' = Append(calls, CallRet("ready", Bool(rdy)))
                  \o (IF rdy THEN <<Call("recharge"), Call("tcbSchedAppend")>>
                      ELSE <<Call("postpone")>>)
                  \o <<Call("rescheduleRequired")>>
  /\ pc' = "handleSyscall_ret"
  /\ UNCHANGED <<ksCurThread, tcbState, tcbCaller, capRegister, msgInfoRegister,
                 ksConsumed, Locals, entry>>

\* the scheduler keeps the current thread out of its queues, so the assert
\* that opens handleYield holds
handleYield ==
  /\ pc = "handleYield"
  /\ \E rdy \in BOOLEAN :
       calls' = Append(calls, CallRet("ready", Bool(rdy)))
                  \o (IF rdy THEN <<Call("recharge"), Call("tcbSchedAppend")>>
                      ELSE <<Call("postpone")>>)
                  \o <<Call("rescheduleRequired")>>
  /\ ksConsumed' = 0
  /\ pc' = "handleSyscall_ret"
  /\ UNCHANGED <<ksCurThread, tcbState, tcbCaller, capRegister, msgInfoRegister,
                 Locals, entry>>

\* faulty variant: an interrupt is drained after every system call
handleSyscall_ret_alwaysDrains ==
  /\ pc = "handleSyscall_ret"
  /\ \E irq \in IRQs :
       calls' = Append(calls, CallRet("getActiveIRQ", irq))
                  \o (IF irq # irqInvalid THEN <<Call("handleInterrupt")>> ELSE <<>>)
  /\ pc' = "schedule"
  /\ UNCHANGED <<ksCurThread, tcbState, tcbCaller, capRegister, msgInfoRegister,
                 ksConsumed, Locals, entry>>

\* faulty variant: handleSyscall goes from the switch straight to activateThread
handleSyscall_ret_noSchedule ==
  /\ pc = "handleSyscall_ret"
  /\ IF ret = "EXCEPTION_PREEMPTED"
       THEN \E irq \in IRQs :
              calls' = Append(calls, CallRet("getActiveIRQ", irq))
                         \o (IF irq # irqInvalid THEN <<Call("handleInterrupt")>> ELSE <<>>)
       ELSE UNCHANGED calls
  /\ pc' = "activateThread"
  /\ UNCHANGED <<ksCurThread, tcbState, tcbCaller, capRegister, msgInfoRegister,
                 ksConsumed, Locals, entry>>

\* handleSyscall after the switch on the opcode
handleSyscall_ret ==
  /\ pc = "handleSyscall_ret"
  /\ IF ret = "EXCEPTION_PREEMPTED"
       THEN \E irq \in IRQs :
              calls' = Append(calls, CallRet("getActiveIRQ", irq))
                         \o (IF irq # irqInvalid THEN <<Call("handleInterrupt")>> ELSE <<>>)
       ELSE UNCHANGED calls
  /\ pc' = "schedule"
  /\ UNCHANGED <<ksCurThread, tcbState, tcbCaller, capRegister, msgInfoRegister,
                 ksConsumed, Locals, entry>>

Runnable(t) == tcbState[t] \in {"Running", "Restart"}

\* schedule(): a runnable thread becomes the current thread, the idle thread
\* when there is none
schedule ==
  /\ pc = "schedule"
  /\ calls' = Append(calls, Call("schedule"))
  /\ IF \E t \in Threads : Runnable(t)
       THEN \E t \in Threads : Runnable(t) /\ ksCurThread' = t
       ELSE ksCurThread' = ksIdleThread
  /\ pc' = "activateThread"
  /\ UNCHANGED <<tcbState, tcbCaller, capRegister, msgInfoRegister, ksConsumed,
                 Locals, entry>>

\* activateThread(): a current thread in Restart restarts its system call
\* and runs
activateThread ==
  /\ pc = "activateThread"
  /\ calls' = Append(calls, Call("activateThread"))
  /\ tcbState' = IF ksCurThread \in Threads /\ tcbState[ksCurThread] = "Restart"
                   THEN setThreadState(tcbState, ksCurThread, "Running")
                   ELSE tcbState
  /\ pc' = "return"
  /\ UNCHANGED <<ksCurThread, tcbCaller, capRegister, msgInfoRegister, ksConsumed,
                 Locals, entry>>

\* return EXCEPTION_NONE: back to user mode, the entry's locals are gone
kernelExit ==
  /\ pc = "return"
  /\ pc' = "user"
  /\ calls' = <<>>
  /\ syscall' = NULL
  /\ isCall' = FALSE
  /\ isBlocking' = FALSE
  /\ ret' = "EXCEPTION_NONE"
  /\ lu_ret' = NoLookup
  /\ status' = "EXCEPTION_NONE"
  /\ buffer' = NULL
  /\ length' = 0
  /\ decoded' = "none"
  /\ entry' = NoEntry
  /\ capRegister' = 0
  /\ msgInfoRegister' = 0
  /\ UNCHANGED <<ksCurThread, tcbState, tcbCaller, ksConsumed>>

Next ==
  \/ handleInterruptEntry
  \/ \E w \in UnknownSyscalls : handleUnknownSyscall(w)
  \/ handleUserLevelFault
  \/ handleVMFaultEvent
  \/ \E sc \in Syscalls \cup {"SysInvalid"} : handleSyscall(sc)
  \/ handleInvocation
  \/ decodeInvocation
  \/ handleInvocation_status
  \/ handleReply
  \/ handleRecv
  \/ receiveIPC
  \/ receiveSignal
  \/ handleYield
  \/ handleSyscall_ret
  \/ schedule
  \/ activateThread
  \/ kernelExit

Spec == Init /\ [][Next]_vars

SpecFromEmpty == InitEmpty /\ [][Next]_vars

\* ------------------------------------------------------ reading the calls
Count(f)       == Cardinality({i \in DOMAIN calls : calls[i].f = f})
Called(f)      == \E i \in DOMAIN calls : calls[i].f = f
Returned(f, r) == \E i \in DOMAIN calls : calls[i].f = f /\ calls[i].r = r
CalledAny(fs)  == \E i \in DOMAIN calls : calls[i].f \in fs
Before(f, g)   == \A i, j \in DOMAIN calls : (calls[i].f = f /\ calls[j].f = g) => i < j

\* the entry's thread, and what it trapped with
Self       == entry.thread
CallerCap0 == entry.tcbCaller[Self]

EndsScheduled ==
  /\ Len(calls) >= 2
  /\ calls[Len(calls) - 1].f = "schedule"
  /\ calls[Len(calls)].f = "activateThread"
  /\ Count("schedule") = 1
  /\ Count("activateThread") = 1

FaultEntryCalls == {"fault_unknown_syscall_new", "fault_user_exception_new", "handleVMFault"}
SyscallCalls ==
  {"lookupCapAndSlot", "lookupIPCBuffer", "lookupExtraCaps", "decodeInvocation",
   "replyFromKernel_error", "replyFromKernel_success_empty", "doReplyTransfer",
   "userError", "lookupCap", "deleteCallerCap", "receiveIPC", "receiveSignal",
   "ready", "recharge", "tcbSchedAppend", "postpone", "rescheduleRequired"}
FaultCalls == {"handleFault", "fault_cap_fault_new", "lookup_fault_missing_capability_new"}
Replies    == {"replyFromKernel_error", "replyFromKernel_success_empty"}

\* the handling paths the entry has run calls of
PathsRun ==
  {p \in {"interrupt", "fault", "syscall"} :
     \/ p = "interrupt" /\ calls # <<>> /\ calls[1].f = "getActiveIRQ"
     \/ p = "fault" /\ CalledAny(FaultEntryCalls)
     \/ p = "syscall" /\ CalledAny(SyscallCalls)}

PathOf(path) ==
  IF path = "handleInterruptEntry" THEN "interrupt"
  ELSE IF path = "handleSyscall" THEN "syscall"
  ELSE "fault"

DebugWord == entry.path = "handleUnknownSyscall" /\ entry.arg # "SysOther"

OnePath ==
  /\ PathsRun \subseteq {PathOf(entry.path)}
  /\ Returned("checkBudget", "false") \/ PathsRun = {PathOf(entry.path)}

\* ------------------------------------------------------------------ C1
\* C1 as stated: every entry, whatever its input and whatever the
\* collaborators return, is over only after one handling path and then
\* schedule() once and activateThread() once, as its last two calls.
C1_EveryEntryEndsScheduled ==
  pc \in {"return", "halted"} => (EndsScheduled /\ OnePath)

\* C1, amended: an entry that returns, other than a debug, code-injection
\* or benchmark word of handleUnknownSyscall, has run exactly one handling
\* path (none but the Restart of the thread when checkBudget() was false)
\* and ends with schedule() once, then activateThread() once, as its last
\* two calls; such a word returns without either and without a fault; and
\* an entry that does not return has stopped the kernel in fail(), halt()
\* or a failed assert(), without either.
C1_ReturningEntryEndsScheduled ==
  /\ (pc = "return" /\ ~DebugWord) => (EndsScheduled /\ OnePath)
  /\ (pc = "return" /\ DebugWord) =>
       /\ ~Called("schedule") /\ ~Called("activateThread")
       /\ ~Called("handleFault") /\ ~Called("updateTimestamp")
  /\ pc = "halted" =>
       /\ calls[Len(calls)].f \in {"fail", "halt", "assert"}
       /\ ~Called("schedule") /\ ~Called("activateThread")

C1_Witness ==
  /\ pc = "return"
  /\ entry.path = "handleSyscall"
  /\ Called("decodeInvocation")
  /\ EndsScheduled

\* ------------------------------------------------------------------ C2
WorkCalls == SyscallCalls \cup FaultEntryCalls \cup FaultCalls
               \cup {"getActiveIRQ", "handleInterrupt", "handleSpuriousIRQ"}

\* C2: once checkBudget() has returned false, the entry calls none of the
\* handlers and builds no fault, the thread is in Restart when the entry
\* reaches schedule(), and its capRegister, msgInfoRegister and caller slot
\* are the ones it trapped with.
C2_NoBudgetNoWork ==
  Returned("checkBudget", "false") =>
    /\ pc \in {"schedule", "activateThread", "return"}
    /\ ~CalledAny(WorkCalls)
    /\ Count("setThreadState") = 1
    /\ pc = "schedule" => tcbState = [entry.tcbState EXCEPT ![Self] = "Restart"]
    /\ capRegister = entry.capRegister
    /\ msgInfoRegister = entry.msgInfoRegister
    /\ tcbCaller = entry.tcbCaller

C2_Witness ==
  /\ Returned("checkBudget", "false")
  /\ pc = "schedule"
  /\ syscall = "SysCall"
  /\ tcbState[Self] = "Restart"
  /\ CallerCap0.capType = "cap_reply_cap"

\* ------------------------------------------------------------------ C3
InvocationLookupFailed ==
  /\ syscall \in {"SysSend", "SysNBSend", "SysCall"}
  /\ \/ lu_ret.status = "EXCEPTION_LOOKUP_FAULT"
     \/ status = "EXCEPTION_LOOKUP_FAULT"

\* C3: after a failed lookupCapAndSlot or lookupExtraCaps, handleInvocation
\* has not called decodeInvocation, has sent no reply, has called
\* handleFault once if isBlocking and not at all otherwise, has not set the
\* thread Running, and has returned EXCEPTION_NONE.
C3_LookupFailure ==
  InvocationLookupFailed =>
    /\ ~Called("decodeInvocation")
    /\ ~CalledAny(Replies)
    /\ Count("handleFault") = (IF isBlocking THEN 1 ELSE 0)
    /\ ~Called("setThreadState")
    /\ ret = "EXCEPTION_NONE"
    /\ ~Called("getActiveIRQ")
    /\ pc = "handleSyscall_ret" =>
         IF isBlocking THEN tcbState[Self] \in FaultStates
         ELSE tcbState = entry.tcbState

C3_Witness ==
  /\ InvocationLookupFailed
  /\ status = "EXCEPTION_LOOKUP_FAULT"
  /\ syscall = "SysNBSend"
  /\ pc = "handleSyscall_ret"

\* ------------------------------------------------------------------ C4
\* handleReply has run in this entry
Replied ==
  /\ entry.path = "handleSyscall"
  /\ syscall \in {"SysReply", "SysReplyRecv"}
  /\ Returned("checkBudget", "true")
  /\ pc # "handleReply"

\* the state right after handleReply has returned
JustReplied == Replied /\ pc = AfterReply /\ ~Called("lookupCap")

MasterReply == Replied /\ CallerCap0.capType = "cap_reply_cap" /\ CallerCap0.capReplyMaster

\* C4 as stated: with a master reply cap in the caller slot handleReply
\* does nothing and returns, the kernel is not stopped.
C4_MasterReplyIsNoOp ==
  MasterReply =>
    /\ pc # "halted"
    /\ ~Called("doReplyTransfer")
    /\ JustReplied => (tcbState = entry.tcbState /\ tcbCaller = entry.tcbCaller)

\* C4, amended: with a master reply cap in the caller slot handleReply
\* transfers no reply and changes no thread state and no caller slot, and
\* then stops the kernel in fail("handleReply: invalid caller cap"): it does
\* not return, and schedule() and activateThread() are not called.
C4_MasterReplyFails ==
  MasterReply =>
    /\ pc = "halted"
    /\ calls = Append(Accounted(TRUE), Call("fail"))
    /\ tcbState = entry.tcbState
    /\ tcbCaller = entry.tcbCaller

C4_Witness == MasterReply /\ pc = "halted" /\ syscall = "SysReply"

\* ------------------------------------------------------------------ C5
NullReply == Replied /\ CallerCap0 = NullCap

\* C5: with an empty caller slot handleReply calls userError and returns:
\* no doReplyTransfer, no handleFault, no stop of the kernel, and on its
\* return every thread state and every caller slot is as at the trap.
C5_NullReplyOnlyReports ==
  NullReply =>
    /\ ~Called("doReplyTransfer")
    /\ Count("userError") = 1
    /\ pc # "halted"
    /\ syscall = "SysReply" => ~Called("handleFault")
    /\ JustReplied =>
         /\ ~Called("handleFault")
         /\ calls = Append(Accounted(TRUE), Call("userError"))
         /\ tcbState = entry.tcbState
         /\ tcbCaller = entry.tcbCaller

C5_Witness == NullReply /\ JustReplied /\ syscall = "SysReply"

\* ------------------------------------------------------------------ C6
RecvSyscalls == {"SysRecv", "SysNBRecv", "SysReplyRecv"}

\* handleRecv has looked its cap up
RecvLooked == syscall \in RecvSyscalls /\ lu_ret # NoLookup

AuthEndpoint ==
  /\ lu_ret.status = "EXCEPTION_NONE"
  /\ lu_ret.capType = "cap_endpoint_cap"
  /\ lu_ret.capCanReceive

AuthNotification ==
  /\ lu_ret.status = "EXCEPTION_NONE"
  /\ lu_ret.capType = "cap_notification_cap"
  /\ lu_ret.capCanReceive
  /\ lu_ret.ntfnBoundTCB \in {NULL, Self}

\* C6: receiveIPC is called only on an endpoint cap with the receive right,
\* receiveSignal only on a notification cap with the receive right whose
\* notification is unbound or bound to the current thread; on every other
\* lookup result handleRecv builds one cap fault, calls handleFault once for
\* the current thread, and calls neither.
C6_ReceiveOnlyAuthorised ==
  /\ (pc = "receiveIPC" \/ Called("receiveIPC")) => (RecvLooked /\ AuthEndpoint)
  /\ (pc = "receiveSignal" \/ Called("receiveSignal")) => (RecvLooked /\ AuthNotification)
  /\ (RecvLooked /\ ~AuthEndpoint /\ ~AuthNotification) =>
       /\ Count("fault_cap_fault_new") = 1
       /\ Count("handleFault") = 1
       /\ ~Called("receiveIPC") /\ ~Called("receiveSignal")
       /\ pc = "handleSyscall_ret" => tcbState[Self] \in FaultStates
  /\ (RecvLooked /\ (AuthEndpoint \/ AuthNotification)) => ~Called("handleFault")

C6_Witness ==
  /\ RecvLooked
  /\ pc = "handleSyscall_ret"
  /\ lu_ret.capType = "cap_notification_cap"
  /\ lu_ret.capCanReceive
  /\ lu_ret.ntfnBoundTCB \in Threads \ {Self}
  /\ Called("handleFault")

\* ------------------------------------------------------------------ C7
Yielded == Called("ready")

\* C7: handleYield leaves ksConsumed at zero and calls rescheduleRequired()
\* once, last; when ready() holds it calls recharge and then tcbSchedAppend
\* and not postpone, when ready() does not hold it calls postpone and
\* neither recharge nor tcbSchedAppend.
C7_YieldResetsAndReschedules ==
  Yielded =>
    /\ ksConsumed = 0
    /\ Count("rescheduleRequired") = 1
    /\ Returned("ready", "true") =>
         /\ Count("recharge") = 1 /\ Count("tcbSchedAppend") = 1
         /\ Before("recharge", "tcbSchedAppend")
         /\ ~Called("postpone")
    /\ Returned("ready", "false") =>
         /\ Count("postpone") = 1
         /\ ~Called("recharge") /\ ~Called("tcbSchedAppend")
    /\ pc = "handleSyscall_ret" =>
         calls = Accounted(TRUE)
                   \o (IF Returned("ready", "true")
                         THEN <<CallRet("ready", "true"), Call("recharge"),
                                Call("tcbSchedAppend")>>
                         ELSE <<CallRet("ready", "false"), Call("postpone")>>)
                   \o <<Call("rescheduleRequired")>>

C7_Witness ==
  /\ Yielded
  /\ pc = "handleSyscall_ret"
  /\ Returned("ready", "false")
  /\ Called("postpone")
  /\ ksConsumed = 0

\* ------------------------------------------------------------------ C8
Invocations == {"SysSend", "SysNBSend", "SysCall"}

\* handleInvocation has seen decodeInvocation return EXCEPTION_PREEMPTED
Preempted ==
  /\ syscall \in Invocations
  /\ status = "EXCEPTION_PREEMPTED"
  /\ pc # "handleInvocation_status"

Drained == pc \in {"schedule", "activateThread", "return"}

\* C8: after decodeInvocation has returned EXCEPTION_PREEMPTED,
\* handleInvocation returns that status, sends no reply and does not set the
\* thread's state, which stays as the decoder left it; handleSyscall then
\* calls getActiveIRQ once, handleInterrupt once if the irq is valid and
\* not otherwise, never handleSpuriousIRQ, all before schedule().
C8_PreemptedInvocation ==
  Preempted =>
    /\ ret = "EXCEPTION_PREEMPTED"
    /\ ~CalledAny(Replies)
    /\ ~Called("setThreadState")
    /\ ~Called("handleSpuriousIRQ")
    /\ pc = "handleSyscall_ret" =>
         /\ tcbState[Self] = decoded
         /\ decoded # "Running"
         /\ ~Called("getActiveIRQ")
    /\ Drained =>
         /\ Count("getActiveIRQ") = 1
         /\ Count("handleInterrupt") = (IF Returned("getActiveIRQ", irqInvalid) THEN 0 ELSE 1)
         /\ Before("decodeInvocation", "getActiveIRQ")
         /\ Before("getActiveIRQ", "handleInterrupt")
         /\ Before("getActiveIRQ", "schedule")
         /\ Before("handleInterrupt", "schedule")
         /\ Before("handleInterrupt", "activateThread")

C8_Witness ==
  /\ Preempted
  /\ syscall = "SysCall"
  /\ pc = "return"
  /\ Returned("getActiveIRQ", irqInvalid)
  /\ ~Called("handleInterrupt")

\* ------------------------------------------------------------------ C9
\* handleInvocation has seen decodeInvocation succeed for a Call
CallDecoded ==
  /\ syscall = "SysCall"
  /\ decoded # "none"
  /\ status = "EXCEPTION_NONE"
  /\ pc # "handleInvocation_status"

\* C9 as stated: a Call whose decoder succeeds and leaves the thread in
\* Restart has the thread set Running and no reply of the kernel sent.
C9_CallRunsWithoutReply ==
  (CallDecoded /\ decoded = "Restart") =>
    /\ pc = "handleSyscall_ret" => tcbState[Self] = "Running"
    /\ ~CalledAny(Replies)

\* C9, amended: when the decoder succeeds for a Call, a thread it left in
\* Restart is sent exactly one empty-success reply and then set Running; a
\* thread it left in any other state is sent no reply and keeps that state;
\* an error reply is sent in neither case.
C9_CallRepliedWhenRestart ==
  CallDecoded =>
    /\ ~Called("replyFromKernel_error")
    /\ IF decoded = "Restart"
         THEN /\ Count("replyFromKernel_success_empty") = 1
              /\ Count("setThreadState") = 1
              /\ Before("replyFromKernel_success_empty", "setThreadState")
              /\ pc = "handleSyscall_ret" => tcbState[Self] = "Running"
         ELSE /\ ~CalledAny(Replies)
              /\ ~Called("setThreadState")
              /\ pc = "handleSyscall_ret" => tcbState[Self] = decoded

C9_Witness ==
  /\ CallDecoded
  /\ decoded = "Restart"
  /\ pc = "handleSyscall_ret"
  /\ tcbState[Self] = "Running"
  /\ Called("replyFromKernel_success_empty")

\* ----------------------------------------------------------------- C10
\* C10: when receiveIPC begins, deleteCallerCap was the call before it and
\* the current thread's caller slot holds no cap; deleteCallerCap is called
\* once, before receiveIPC, in every entry that calls receiveIPC.
C10_CallerSlotClearedBeforeReceive ==
  /\ pc = "receiveIPC" =>
       /\ tcbCaller[ksCurThread] = NullCap
       /\ calls[Len(calls)].f = "deleteCallerCap"
  /\ Called("receiveIPC") =>
       /\ Count("deleteCallerCap") = 1
       /\ Before("deleteCallerCap", "receiveIPC")

C10_Witness ==
  /\ pc = "receiveIPC"
  /\ syscall = "SysRecv"
  /\ CallerCap0.capType = "cap_reply_cap"
  /\ ~CallerCap0.capReplyMaster
  /\ tcbCaller[Self] = NullCap

\* ----------------------------------------------------------------- C11
\* t's caller slot holds a non-master reply cap that names t itself
SelfReply(t) ==
  /\ cap_get_capType(tcbCaller[t]) = "cap_reply_cap"
  /\ ~cap_reply_cap_get_capReplyMaster(tcbCaller[t])
  /\ cap_reply_cap_get_capTCBPtr(tcbCaller[t]) = t

InvocationDecoded(st) ==
  /\ syscall \in Invocations
  /\ decoded # "none"
  /\ status = st
  /\ pc # "handleInvocation_status"

\* C12: after decodeInvocation has succeeded, a thread it left in Restart
\* is sent replyFromKernel_success_empty exactly when isCall and is then
\* set Running; a thread it left in any other state is sent no reply and
\* keeps the state the decoder gave it.
C12_SuccessReplyRule ==
  InvocationDecoded("EXCEPTION_NONE") =>
    /\ ret = "EXCEPTION_NONE"
    /\ IF decoded = "Restart"
         THEN /\ Count("replyFromKernel_success_empty") = (IF isCall THEN 1 ELSE 0)
              /\ Count("setThreadState") = 1
              /\ calls[Len(Accounted(TRUE)) + 4 + (IF isCall THEN 2 ELSE 1)].f = "setThreadState"
              /\ pc = "handleSyscall_ret" =>
                   tcbState = [entry.tcbState EXCEPT ![Self] = "Running"]
         ELSE /\ ~Called("replyFromKernel_success_empty")
              /\ ~Called("setThreadState")
              /\ pc = "handleSyscall_ret" =>
                   tcbState = [entry.tcbState EXCEPT ![Self] = decoded]

C12_Witness ==
  /\ InvocationDecoded("EXCEPTION_NONE")
  /\ syscall = "SysSend"
  /\ decoded = "BlockedOnSend"
  /\ pc = "handleSyscall_ret"
  /\ tcbState[Self] = "BlockedOnSend"

\* ----------------------------------------------------------------- C13
\* C13: after decodeInvocation has returned EXCEPTION_SYSCALL_ERROR,
\* replyFromKernel_error is sent once for a Call and not at all for Send or
\* NBSend; there is no empty-success reply, no fault, no setThreadState,
\* and handleInvocation returns EXCEPTION_NONE, so that no interrupt is
\* drained.
C13_ErrorReplyRule ==
  InvocationDecoded("EXCEPTION_SYSCALL_ERROR") =>
    /\ Count("replyFromKernel_error") = (IF isCall THEN 1 ELSE 0)
    /\ isCall = (syscall = "SysCall")
    /\ ~Called("replyFromKernel_success_empty")
    /\ ~Called("handleFault")
    /\ ~Called("setThreadState")
    /\ ret = "EXCEPTION_NONE"
    /\ ~Called("getActiveIRQ") /\ ~Called("handleInterrupt")
    /\ pc = "handleSyscall_ret" => tcbState[Self] = decoded

C13_Witness ==
  /\ InvocationDecoded("EXCEPTION_SYSCALL_ERROR")
  /\ syscall = "SysNBSend"
  /\ pc = "return"
  /\ ~CalledAny(Replies)

\* ----------------------------------------------------------------- C14
InvocationCalls == {"lookupCapAndSlot", "lookupIPCBuffer", "lookupExtraCaps",
                    "decodeInvocation"} \cup Replies
RecvCalls       == {"lookupCap", "deleteCallerCap", "receiveIPC", "receiveSignal"}
ReplyCalls      == {"doReplyTransfer", "userError"}
YieldCalls      == {"ready", "recharge", "tcbSchedAppend", "postpone", "rescheduleRequired"}

\* handleSyscall has passed the budget gate with one of its eight opcodes
Routed ==
  /\ entry.path = "handleSyscall"
  /\ Returned("checkBudget", "true")
  /\ syscall \in Syscalls

\* the switch of handleSyscall is behind
Switched == pc \in {"handleSyscall_ret", "schedule", "activateThread", "return"}

\* the first handler the opcode is routed to, by the claim's table
FirstHandler ==
  CASE syscall \in {"SysSend", "SysNBSend", "SysCall"} -> "handleInvocation"
    [] syscall \in {"SysRecv", "SysNBRecv"} -> "handleRecv"
    [] syscall \in {"SysReply", "SysReplyRecv"} -> "handleReply"
    [] syscall = "SysYield" -> "handleYield"

\* C14: with budget, Send, NBSend and Call run handleInvocation with
\* (isCall, isBlocking) = (false, true), (false, false), (true, true);
\* Recv and NBRecv run handleRecv, blocking and not; Reply runs handleReply
\* only, Yield handleYield only; ReplyRecv runs handleReply and then
\* handleRecv, blocking, in the same entry; no other handler runs.
C14_OpcodeRouting ==
  Routed =>
    /\ Len(calls) = 2 => pc = FirstHandler
    /\ syscall = "SysSend" => (~isCall /\ isBlocking)
    /\ syscall = "SysNBSend" => (~isCall /\ ~isBlocking)
    /\ syscall = "SysCall" => (isCall /\ isBlocking)
    /\ syscall \in {"SysRecv", "SysReplyRecv"} => isBlocking
    /\ syscall = "SysNBRecv" => ~isBlocking
    /\ syscall \in {"SysSend", "SysNBSend", "SysCall"} =>
         /\ ~CalledAny(RecvCalls \cup ReplyCalls \cup YieldCalls)
         /\ Switched => Called("lookupCapAndSlot")
    /\ syscall \in {"SysRecv", "SysNBRecv"} =>
         /\ ~CalledAny(InvocationCalls \cup ReplyCalls \cup YieldCalls)
         /\ Switched => Count("lookupCap") = 1
    /\ syscall = "SysReply" =>
         /\ ~CalledAny(InvocationCalls \cup RecvCalls \cup YieldCalls)
         /\ Switched => (Count("doReplyTransfer") + Count("userError") = 1)
    /\ syscall = "SysYield" =>
         /\ ~CalledAny(InvocationCalls \cup RecvCalls \cup ReplyCalls)
         /\ Switched => Count("ready") = 1
    /\ syscall = "SysReplyRecv" =>
         /\ ~CalledAny(InvocationCalls \cup YieldCalls)
         /\ Switched =>
              /\ Count("doReplyTransfer") + Count("userError") = 1
              /\ Count("lookupCap") = 1
              /\ Before("doReplyTransfer", "lookupCap")
              /\ Before("userError", "lookupCap")

C14_Witness ==
  /\ Routed
  /\ syscall = "SysReplyRecv"
  /\ pc = "return"
  /\ Called("doReplyTransfer")
  /\ Called("receiveIPC")

\* ----------------------------------------------------------------- C15
\* handleInvocation has set the length it passes to decodeInvocation
LengthSet ==
  /\ syscall \in Invocations
  /\ Returned("lookupExtraCaps", "EXCEPTION_NONE")

\* the msgLength field of the message header the thread trapped with
msgLength0 == entry.msgInfoRegister % 128

\* C15: the length handed to decodeInvocation is the smaller of msgLength
\* and n_msgRegisters when the thread has no IPC buffer, and msgLength
\* when it has one; without a buffer it is never above n_msgRegisters.
C15_LengthClamped ==
  LengthSet =>
    /\ buffer = NULL =>
         /\ length = (IF msgLength0 < n_msgRegisters THEN msgLength0 ELSE n_msgRegisters)
         /\ length <= n_msgRegisters
    /\ buffer # NULL => length = msgLength0

C15_Witness ==
  /\ LengthSet
  /\ Called("decodeInvocation")
  /\ buffer = NULL
  /\ msgLength0 > n_msgRegisters
  /\ length = n_msgRegisters

\* ----------------------------------------------------------------- C16
InterruptEntered == entry.path = "handleInterruptEntry"

\* C16: handleInterruptEntry calls neither updateTimestamp nor checkBudget
\* and sets no thread state; it calls getActiveIRQ once, first, and then
\* handleInterrupt when the irq is valid, handleSpuriousIRQ when it is
\* not, one of the two and once.
C16_InterruptNotGated ==
  InterruptEntered =>
    /\ ~Called("updateTimestamp") /\ ~Called("checkBudget")
    /\ ~Called("setThreadState")
    /\ pc = "schedule" => tcbState = entry.tcbState
    /\ Count("getActiveIRQ") = 1
    /\ calls[1].f = "getActiveIRQ"
    /\ calls[2].f = (IF calls[1].r # irqInvalid THEN "handleInterrupt"
                     ELSE "handleSpuriousIRQ")
    /\ Count("handleInterrupt") + Count("handleSpuriousIRQ") = 1

C16_Witness ==
  /\ InterruptEntered
  /\ pc = "return"
  /\ Returned("getActiveIRQ", irqInvalid)
  /\ Called("handleSpuriousIRQ")

\* ----------------------------------------------------------------- C17
VMFaultHandled ==
  /\ entry.path = "handleVMFaultEvent"
  /\ Returned("checkBudget", "true")

\* C17: with budget, handleVMFaultEvent calls handleVMFault once, and
\* handleFault once if handleVMFault returned other than EXCEPTION_NONE and
\* not at all if it returned EXCEPTION_NONE; in that case no thread state
\* is changed.
C17_VMFaultRule ==
  VMFaultHandled =>
    /\ Count("handleVMFault") = 1
    /\ Count("handleFault") = (IF Returned("handleVMFault", "EXCEPTION_NONE") THEN 0 ELSE 1)
    /\ Before("handleVMFault", "handleFault")
    /\ ~Called("setThreadState")
    /\ pc = "schedule" =>
         IF Returned("handleVMFault", "EXCEPTION_NONE")
           THEN tcbState = entry.tcbState
           ELSE tcbState[Self] \in FaultStates

C17_Witness ==
  /\ VMFaultHandled
  /\ pc = "schedule"
  /\ Returned("handleVMFault", "EXCEPTION_NONE")
  /\ ~Called("handleFault")

\* ----------------------------------------------------------------- C18
DrainCalls == {"getActiveIRQ", "handleInterrupt", "handleSpuriousIRQ"}

SyscallEntered == entry.path = "handleSyscall"

\* C18: in handleSyscall an interrupt is looked for after the switch only
\* when the opcode is Send, NBSend or Call, the budget gate let the entry
\* in and decodeInvocation returned EXCEPTION_PREEMPTED, and then always;
\* Recv, NBRecv, Reply, ReplyRecv and Yield, and every deferred entry, go
\* to schedule() without it.
C18_DrainOnlyAfterPreemption ==
  SyscallEntered =>
    /\ CalledAny(DrainCalls) =>
         /\ syscall \in {"SysSend", "SysNBSend", "SysCall"}
         /\ Returned("checkBudget", "true")
         /\ Returned("decodeInvocation", "EXCEPTION_PREEMPTED")
         /\ Before("decodeInvocation", "getActiveIRQ")
    /\ (Called("schedule") /\ Returned("decodeInvocation", "EXCEPTION_PREEMPTED")) =>
         Called("getActiveIRQ")

C18_Witness ==
  /\ SyscallEntered
  /\ syscall = "SysNBRecv"
  /\ Called("receiveIPC")
  /\ pc = "return"
  /\ ~CalledAny(DrainCalls)

\* ----------------------------------------------------------------- C19
AccountedEntry ==
  \/ entry.path \in {"handleSyscall", "handleUserLevelFault", "handleVMFaultEvent"}
  \/ entry.path = "handleUnknownSyscall" /\ entry.arg = "SysOther"

\* C19: an accounted entry calls updateTimestamp first and checkBudget
\* second, each once, so that every handler call, fault and change of a
\* thread state of the entry comes after both.
C19_TimestampThenBudget ==
  AccountedEntry =>
    /\ Len(calls) >= 2
    /\ calls[1].f = "updateTimestamp"
    /\ calls[2].f = "checkBudget"
    /\ Count("updateTimestamp") = 1
    /\ Count("checkBudget") = 1
    /\ Len(calls) = 2 => tcbState = entry.tcbState /\ tcbCaller = entry.tcbCaller

C19_Witness ==
  /\ AccountedEntry
  /\ entry.path = "handleUnknownSyscall"
  /\ pc = "return"
  /\ Called("handleFault")

\* ----------------------------------------------------------------- C20
\* the caller slots as handleReply, if it ran, left them
CallerAfterReply ==
  IF Called("doReplyTransfer")
    THEN [entry.tcbCaller EXCEPT ![Self] = NullCap]
    ELSE entry.tcbCaller

\* C20: handleRecv calls deleteCallerCap only for an endpoint cap with the
\* receive right; on each of its fault paths and on a notification it
\* accepts, deleteCallerCap is not called and the caller slots are as
\* handleRecv found them.
C20_CallerSlotKeptUnlessEndpoint ==
  /\ Called("deleteCallerCap") => (RecvLooked /\ AuthEndpoint)
  /\ (RecvLooked /\ ~AuthEndpoint) =>
       /\ ~Called("deleteCallerCap")
       /\ tcbCaller = CallerAfterReply

C20_Witness ==
  /\ RecvLooked
  /\ syscall = "SysRecv"
  /\ AuthNotification
  /\ Called("receiveSignal")
  /\ cap_get_capType(CallerCap0) = "cap_reply_cap"
  /\ tcbCaller[Self] = CallerCap0

====
